---- MODULE Spec2Model ----
(***************************************************************************)
(* Model of the VIC provider of virtual-kubelet: the Isolation Proxy       *)
(* (providers/vic/proxy/image_store.go, VicIsolationProxy) and the Pod     *)
(* Proxy (providers/vic/pod_proxy.go).                                     *)
(*                                                                         *)
(* The port layer is an external service: every remote call is recorded in *)
(* `calls` in the order it is issued, and its response is an input of the  *)
(* operation, drawn from the responses the client library can produce.     *)
(***************************************************************************)
EXTENDS Integers, Sequences, FiniteSets, TLC

VARIABLES
    client,     \* VicIsolationProxy.client: "pl" (a port layer client) or "nil"
    pc,         \* "ready": no operation has run yet; "done": one has returned
    op,         \* name of the operation that ran
    inp,        \* the arguments the operation was called with
    calls,      \* remote calls issued by the operation, in order
    ret,        \* what the operation returned
    attempts    \* PodProxy: createContainer invocations of CreatePod, in order

vars == <<client, pc, op, inp, calls, ret, attempts>>

----------------------------------------------------------------------------
(* Bounds and input domains *)

\* longest Cmd / Entrypoint considered
MaxArgs == 2

\* most containers in a pod
MaxContainers == 2

Tokens == {"/bin/sh", "-c"}

\* sequences over S of length at most n
SeqUpTo(S, n) == UNION {[1..k -> S] : k \in 0..n}

\* opaque handles the port layer issues, and the ones callers pass in
Handles == {"h1", "h2"}

ContainerIDs == {"c1"}

\* container-side port keys and host bindings of IsolationContainerConfig.PortMap
PortKeys == {"80/tcp", "443/tcp"}

PortBindings == {[HostIP |-> "", HostPort |-> "8080"]}

\* PortMap: a map from some of the port keys to a binding
PortMaps == UNION {[K -> PortBindings] : K \in SUBSET PortKeys}

\* an IsolationContainerConfig; the operations' inputs vary the fields they read
BaseConfig ==
    [Cmd |-> <<>>, Entrypoint |-> <<>>, Env |-> <<"A=1">>, WorkingDir |-> "/w",
     User |-> "u", StopSignal |-> "SIGTERM",
     Attach |-> FALSE, StdinOnce |-> FALSE, OpenStdin |-> FALSE, Tty |-> FALSE,
     PortMap |-> <<>>]

\* a shell command line without an entrypoint
ShellConfig == [BaseConfig EXCEPT !.Cmd = <<"/bin/sh", "-c", "echo hi">>]

\* an entrypoint with a flag as command
InitConfig == [BaseConfig EXCEPT !.Entrypoint = <<"/init">>, !.Cmd = <<"--flag">>]

\* configurations given to CreateHandleTask: the process spec and the flags vary
TaskConfigs ==
    {[BaseConfig EXCEPT !.Cmd = c, !.Entrypoint = e, !.Attach = f[1],
                        !.StdinOnce = f[2], !.OpenStdin = f[3], !.Tty = f[4]] :
        c \in SeqUpTo(Tokens, MaxArgs), e \in SeqUpTo(Tokens, MaxArgs),
        f \in [1..4 -> BOOLEAN]}
      \cup {ShellConfig, InitConfig}

\* configurations given to AddHandleToScope: the port map varies
ScopeConfigs == {[BaseConfig EXCEPT !.PortMap = m] : m \in PortMaps}

----------------------------------------------------------------------------
(* Errors returned by the proxy (vic engine errors package) *)

NoError == [kind |-> "nil", msg |-> <<>>]

InternalServerError(m) == [kind |-> "InternalServerError", msg |-> m]

NotFoundError(m) == [kind |-> "NotFoundError", msg |-> m]

ConflictError(m) == [kind |-> "ConflictError", msg |-> m]

NillPortlayerClientError(caller) == [kind |-> "NillPortlayerClientError", msg |-> <<caller>>]

----------------------------------------------------------------------------
(* Responses of the port layer client *)

\* the typed errors of the swagger client, plus any other error (transport)
Variants == {"NotFound", "Conflict", "Default", "Other"}

RemoteErrs == [variant : Variants]

\* a nil error
NoRemoteErr == [variant |-> "nil"]

\* err.Error() and err.Payload.Message of a remote error
ErrorText(e) == <<"Error", e.variant>>

PayloadMessage(e) == <<"Payload.Message", e.variant>>

NoPayload == [isString |-> FALSE, val |-> "", id |-> ""]

\* a payload whose handle is the string h
StringPayload(h) == [isString |-> TRUE, val |-> h, id |-> ""]

\* a payload whose handle field (an interface{}) holds something else
MalformedPayload == [isString |-> FALSE, val |-> "not-a-string", id |-> ""]

OkResp(p) == [ok |-> TRUE, payload |-> p, err |-> NoRemoteErr]

ErrResp(e) == [ok |-> FALSE, payload |-> NoPayload, err |-> e]

ErrResponses == {ErrResp(e) : e \in RemoteErrs}

\* responses whose payload handle is declared interface{}:
\* ImageJoin, Tasks.Join, Tasks.Bind, LoggingJoin, InteractionJoin
HandleResponses ==
    {OkResp(StringPayload(h)) : h \in Handles} \cup {OkResp(MalformedPayload)}
        \cup ErrResponses

\* responses whose payload is declared string: AddContainer, StateChange, Get
StringResponses == {OkResp(StringPayload(h)) : h \in Handles} \cup ErrResponses

\* Containers.Create: the payload carries an ID and a Handle
CreateResponses ==
    {OkResp([isString |-> TRUE, val |-> h, id |-> c]) : h \in Handles, c \in ContainerIDs}
        \cup ErrResponses

\* Containers.Commit and Scopes.RemoveContainer: the payload is not read
PlainResponses == {OkResp(NoPayload)} \cup ErrResponses

\* TypeAssertString with the assertion dropped: whatever the payload holds is
\* taken for the handle
TypeAssertString_Coerce(p) == [handle |-> p.val, ok |-> TRUE]

\* response.Payload.Handle.(string)
TypeAssertString(p) == [handle |-> IF p.isString THEN p.val ELSE "", ok |-> p.isString]

\* one remote call: the request as the port layer sees it, and its response
Call(api, handle, params, resp) ==
    [api |-> api, handle |-> handle, params |-> params, resp |-> resp]

\* what an operation did: the handle and error it returned and the calls it issued
Outcome(id, handle, err, cs) ==
    [id |-> id, handle |-> handle, err |-> err, panicked |-> FALSE, calls |-> cs]

\* a Go run-time panic: the operation does not return
Panic(cs) ==
    [id |-> "", handle |-> "", err |-> NoError, panicked |-> TRUE, calls |-> cs]

\* the values an operation hands back to its caller
Returned(out) ==
    [id |-> out.id, handle |-> out.handle, err |-> out.err, panicked |-> out.panicked]

----------------------------------------------------------------------------
(* Host identity: constants.RunningInVCH, sys.UUID(), constants.HostUUID *)

\* the execution environment: whether the process runs in a VCH, and what
\* sys.UUID() gives there
HostEnvs == [runningInVCH : BOOLEAN, uuidOk : BOOLEAN]

\* HostIdentity with the error of sys.UUID() ignored
HostIdentity_IgnoreError(env) ==
    IF env.runningInVCH
    THEN [host |-> IF env.uuidOk THEN "vch-uuid" ELSE "", ok |-> TRUE]
    ELSE [host |-> "HostUUID", ok |-> TRUE]

\* host, err as CreateHandle and AddImageToHandle compute them
HostIdentity(env) ==
    IF env.runningInVCH
    THEN [host |-> IF env.uuidOk THEN "vch-uuid" ELSE "", ok |-> env.uuidOk]
    ELSE [host |-> "HostUUID", ok |-> TRUE]

----------------------------------------------------------------------------
(* VicIsolationProxy *)

DummyImage == "f6e427c148a7"

DummyLayerID == "02d3847f0b0f"

DummyRepoName == "busybox"

DefaultCPUs == 2

DefaultMemory == 512

\* the ContainerCreateConfig of the skeleton container
initIsolationConfig(name, repoName, imageID, layerID, imageStore) ==
    [NumCpus |-> DefaultCPUs, MemoryMB |-> DefaultMemory, Layer |-> layerID,
     Image |-> imageID, RepoName |-> repoName, Name |-> name,
     ImageStore |-> imageStore, NetworkDisabled |-> TRUE, Hostname |-> "test-kubelet"]

CreateHandleOutcome(cl, env, rCreate) ==
    IF cl = "nil"
    THEN Outcome("", "", NillPortlayerClientError("ContainerProxy"), <<>>)
    ELSE LET h == HostIdentity(env) IN
      IF ~h.ok
      THEN Outcome("", "", InternalServerError(<<"unexpected error getting VCH UUID">>), <<>>)
      ELSE LET create == Call("Containers.Create", "",
                              initIsolationConfig("", DummyRepoName, DummyImage,
                                                  DummyLayerID, h.host), rCreate)
           IN IF ~rCreate.ok
              THEN IF rCreate.err.variant = "NotFound"
                   THEN Outcome("", "", NotFoundError(<<"No such image", DummyImage>>), <<create>>)
                   ELSE Outcome("", "", InternalServerError(ErrorText(rCreate.err)), <<create>>)
              ELSE Outcome(rCreate.payload.id, rCreate.payload.val, NoError, <<create>>)

HandleOutcome(cl, id, name, rGet) ==
    IF cl = "nil"
    THEN Outcome("", "", NillPortlayerClientError("ContainerProxy"), <<>>)
    ELSE LET get == Call("Containers.Get", "", [ID |-> id], rGet) IN
      IF ~rGet.ok
      THEN CASE rGet.err.variant = "NotFound" ->
                    Outcome("", "", NotFoundError(<<name>>), <<get>>)
             [] rGet.err.variant = "Default" ->
                    Outcome("", "", InternalServerError(PayloadMessage(rGet.err)), <<get>>)
             [] OTHER ->
                    Outcome("", "", InternalServerError(ErrorText(rGet.err)), <<get>>)
      ELSE Outcome("", rGet.payload.val, NoError, <<get>>)

AddImageToHandleOutcome(cl, env, handle, deltaID, layerID, imageID, imageName, rJoin) ==
    IF cl = "nil"
    THEN Outcome("", "", InternalServerError(<<"failed to get the portlayer client">>), <<>>)
    ELSE LET h == HostIdentity(env) IN
      IF ~h.ok
      THEN Outcome("", "", InternalServerError(<<"unexpected error getting VCH UUID">>), <<>>)
      ELSE LET join == Call("Storage.ImageJoin", handle,
                            [StoreName |-> h.host, ID |-> layerID, DeltaID |-> deltaID,
                             ImageID |-> imageID, RepoName |-> imageName], rJoin)
               a == TypeAssertString(rJoin.payload)
           IN IF ~rJoin.ok
              THEN Outcome("", "", InternalServerError(ErrorText(rJoin.err)), <<join>>)
              ELSE IF ~a.ok
              THEN Outcome("", "", InternalServerError(<<"Type assertion failed">>), <<join>>)
              ELSE Outcome("", a.handle, NoError, <<join>>)

\* TaskBindCall with the handle left out of the TaskBindConfig
TaskBindCall_NoHandle(handle, id, rBind) == Call("Tasks.Bind", "", [ID |-> id], rBind)

\* the Tasks.Bind call: the TaskBindConfig carries the handle and the id
TaskBindCall(handle, id, rBind) == Call("Tasks.Bind", handle, [ID |-> id], rBind)

\* IsolationContainerConfigToTask building a request with an empty path
\* when command and entrypoint are both empty
IsolationContainerConfigToTask_EmptyPath(id, layerID, ic) ==
    LET path == IF Len(ic.Entrypoint) # 0 THEN ic.Entrypoint[1]
                ELSE IF Len(ic.Cmd) # 0 THEN ic.Cmd[1] ELSE ""
        args == IF Len(ic.Entrypoint) # 0 THEN Tail(ic.Entrypoint) \o ic.Cmd
                ELSE IF Len(ic.Cmd) # 0 THEN Tail(ic.Cmd) ELSE <<>>
    IN [panicked |-> FALSE, ID |-> id, Namespace |-> layerID, Path |-> path,
        Args |-> args, Env |-> ic.Env, WorkingDir |-> ic.WorkingDir,
        User |-> ic.User, Attach |-> TRUE, OpenStdin |-> ic.OpenStdin,
        Tty |-> ic.Tty, StopSignal |-> ic.StopSignal]

\* IsolationContainerConfigToTask copying attach from the configuration
IsolationContainerConfigToTask_CopyAttach(id, layerID, ic) ==
    IF Len(ic.Entrypoint) = 0 /\ Len(ic.Cmd) = 0
    THEN [panicked |-> TRUE]
    ELSE LET path == IF Len(ic.Entrypoint) # 0 THEN ic.Entrypoint[1] ELSE ic.Cmd[1]
             args == IF Len(ic.Entrypoint) # 0 THEN Tail(ic.Entrypoint) \o ic.Cmd
                     ELSE Tail(ic.Cmd)
         IN [panicked |-> FALSE, ID |-> id, Namespace |-> layerID, Path |-> path,
             Args |-> args, Env |-> ic.Env, WorkingDir |-> ic.WorkingDir,
             User |-> ic.User, Attach |-> ic.Attach, OpenStdin |-> ic.OpenStdin,
             Tty |-> ic.Tty, StopSignal |-> ic.StopSignal]

\* IsolationContainerConfigToTask taking the command for the path whenever
\* there is one, and the entrypoint alone for the arguments otherwise
IsolationContainerConfigToTask_CmdFirst(id, layerID, ic) ==
    IF Len(ic.Entrypoint) = 0 /\ Len(ic.Cmd) = 0
    THEN [panicked |-> TRUE]
    ELSE LET path == IF Len(ic.Cmd) # 0 THEN ic.Cmd[1] ELSE ic.Entrypoint[1]
             args == IF Len(ic.Cmd) # 0 THEN Tail(ic.Cmd) ELSE Tail(ic.Entrypoint)
         IN [panicked |-> FALSE, ID |-> id, Namespace |-> layerID, Path |-> path,
             Args |-> args, Env |-> ic.Env, WorkingDir |-> ic.WorkingDir,
             User |-> ic.User, Attach |-> TRUE, OpenStdin |-> ic.OpenStdin,
             Tty |-> ic.Tty, StopSignal |-> ic.StopSignal]

\* the TaskJoinConfig built from the configuration; indexing an empty cmd panics
IsolationContainerConfigToTask(id, layerID, ic) ==
    IF Len(ic.Entrypoint) = 0 /\ Len(ic.Cmd) = 0
    THEN [panicked |-> TRUE]
    ELSE LET path == IF Len(ic.Entrypoint) # 0 THEN ic.Entrypoint[1] ELSE ic.Cmd[1]
             args == IF Len(ic.Entrypoint) # 0
                     THEN Tail(ic.Entrypoint) \o ic.Cmd
                     ELSE Tail(ic.Cmd)
         IN [panicked |-> FALSE, ID |-> id, Namespace |-> layerID, Path |-> path,
             Args |-> args, Env |-> ic.Env, WorkingDir |-> ic.WorkingDir,
             User |-> ic.User, Attach |-> TRUE, OpenStdin |-> ic.OpenStdin,
             Tty |-> ic.Tty, StopSignal |-> ic.StopSignal]

\* CreateHandleTaskOutcome going on to Tasks.Bind after a failed Tasks.Join
CreateHandleTaskOutcome_BindAfterFailedJoin(cl, handle, id, layerID, config, rJoin, rBind) ==
    IF cl = "nil"
    THEN Outcome("", "", InternalServerError(<<"failed to create a portlayer client">>), <<>>)
    ELSE LET plTaskParams == IsolationContainerConfigToTask(id, layerID, config) IN
      IF plTaskParams.panicked
      THEN Panic(<<>>)
      ELSE LET join == Call("Tasks.Join", handle, plTaskParams, rJoin)
               aj == TypeAssertString(rJoin.payload)
               bind == TaskBindCall(IF rJoin.ok THEN aj.handle ELSE handle, id, rBind)
               ab == TypeAssertString(rBind.payload)
           IN IF rJoin.ok /\ ~aj.ok
              THEN Outcome("", "", InternalServerError(<<"Type assertion failed on handle from task join">>), <<join>>)
              ELSE IF ~rBind.ok
              THEN Outcome("", "", InternalServerError(ErrorText(rBind.err)), <<join, bind>>)
              ELSE IF ~rJoin.ok
              THEN Outcome("", "", InternalServerError(ErrorText(rJoin.err)), <<join, bind>>)
              ELSE IF ~ab.ok
              THEN Outcome("", "", InternalServerError(<<"Type assertion failed on handle from task bind">>), <<join, bind>>)
              ELSE Outcome("", ab.handle, NoError, <<join, bind>>)

CreateHandleTaskOutcome(cl, handle, id, layerID, config, rJoin, rBind) ==
    IF cl = "nil"
    THEN Outcome("", "", InternalServerError(<<"failed to create a portlayer client">>), <<>>)
    ELSE LET plTaskParams == IsolationContainerConfigToTask(id, layerID, config) IN
      IF plTaskParams.panicked
      THEN Panic(<<>>)
      ELSE LET join == Call("Tasks.Join", handle, plTaskParams, rJoin)
               aj == TypeAssertString(rJoin.payload)
               bind == TaskBindCall(aj.handle, id, rBind)
               ab == TypeAssertString(rBind.payload)
           IN IF ~rJoin.ok
              THEN Outcome("", "", InternalServerError(ErrorText(rJoin.err)), <<join>>)
              ELSE IF ~aj.ok
              THEN Outcome("", "", InternalServerError(<<"Type assertion failed on handle from task join">>), <<join>>)
              ELSE IF ~rBind.ok
              THEN Outcome("", "", InternalServerError(ErrorText(rBind.err)), <<join, bind>>)
              ELSE IF ~ab.ok
              THEN Outcome("", "", InternalServerError(<<"Type assertion failed on handle from task bind">>), <<join, bind>>)
              ELSE Outcome("", ab.handle, NoError, <<join, bind>>)

\* fmt.Sprintf("%s:%s", val.HostPort, key)
PortString(binding, key) == <<binding.HostPort, ":", key>>

\* the orders in which Go may range over the keys of a map
RangeOrders(m) ==
    {o \in [1..Cardinality(DOMAIN m) -> DOMAIN m] :
        \A i, j \in DOMAIN o : i # j => o[i] # o[j]}

\* the NetworkConfig of the configuration, never nil; order is the order in
\* which the range statement visits the port map
networkConfigFromIsolationConfig(config, order) ==
    [isNil |-> FALSE, NetworkName |-> "default",
     Ports |-> [i \in 1..Len(order) |-> PortString(config.PortMap[order[i]], order[i])]]

\* the function AddHandleToScope defers after a successful AddContainer; err
\* and handle are the values its variables hold when the function returns
ScopeRollback(err, handle, netConf, rRemove) ==
    IF err = NoRemoteErr
    THEN <<>>
    ELSE <<Call("Scopes.RemoveContainer", handle, [Scope |-> netConf.NetworkName], rRemove)>>

\* AddHandleToScopeOutcome rolling back a failed join and returning the
\* rollback's error when the rollback fails too
AddHandleToScopeOutcome_RollbackMasks(cl, handle, config, order, rAdd, rRemove) ==
    IF cl = "nil"
    THEN Outcome("", "", NillPortlayerClientError("IsolationProxy"), <<>>)
    ELSE LET netConf == networkConfigFromIsolationConfig(config, order) IN
      IF netConf.isNil
      THEN Outcome("", handle, NoError, <<>>)
      ELSE LET add == Call("Scopes.AddContainer", handle,
                           [Scope |-> netConf.NetworkName, NetworkConfig |-> netConf], rAdd)
           IN IF ~rAdd.ok
              THEN Outcome("", handle,
                           InternalServerError(ErrorText(IF rRemove.ok THEN rAdd.err
                                                         ELSE rRemove.err)),
                           <<add>> \o ScopeRollback(rAdd.err, handle, netConf, rRemove))
              ELSE Outcome("", rAdd.payload.val, NoError,
                           <<add>> \o ScopeRollback(rAdd.err, rAdd.payload.val, netConf, rRemove))

\* AddHandleToScopeOutcome keeping the input handle after a successful join
\* and removing the container from the scope again
AddHandleToScopeOutcome_UndoesJoin(cl, handle, config, order, rAdd, rRemove) ==
    IF cl = "nil"
    THEN Outcome("", "", NillPortlayerClientError("IsolationProxy"), <<>>)
    ELSE LET netConf == networkConfigFromIsolationConfig(config, order) IN
      IF netConf.isNil
      THEN Outcome("", handle, NoError, <<>>)
      ELSE LET add == Call("Scopes.AddContainer", handle,
                           [Scope |-> netConf.NetworkName, NetworkConfig |-> netConf], rAdd)
               remove == Call("Scopes.RemoveContainer", handle,
                              [Scope |-> netConf.NetworkName], rRemove)
           IN IF ~rAdd.ok
              THEN Outcome("", handle, InternalServerError(ErrorText(rAdd.err)), <<add>>)
              ELSE Outcome("", handle, NoError, <<add, remove>>)

AddHandleToScopeOutcome(cl, handle, config, order, rAdd, rRemove) ==
    IF cl = "nil"
    THEN Outcome("", "", NillPortlayerClientError("IsolationProxy"), <<>>)
    ELSE LET netConf == networkConfigFromIsolationConfig(config, order) IN
      IF netConf.isNil
      THEN Outcome("", handle, NoError, <<>>)
      ELSE LET add == Call("Scopes.AddContainer", handle,
                           [Scope |-> netConf.NetworkName, NetworkConfig |-> netConf], rAdd)
           IN IF ~rAdd.ok
              THEN Outcome("", handle, InternalServerError(ErrorText(rAdd.err)), <<add>>)
              ELSE Outcome("", rAdd.payload.val, NoError,
                           <<add>> \o ScopeRollback(rAdd.err, rAdd.payload.val, netConf, rRemove))

AddLoggingToHandleOutcome(cl, handle, rJoin) ==
    IF cl = "nil"
    THEN Outcome("", "", NillPortlayerClientError("IsolationProxy"), <<>>)
    ELSE LET join == Call("Logging.LoggingJoin", handle, <<>>, rJoin)
             a == TypeAssertString(rJoin.payload)
         IN IF ~rJoin.ok
            THEN Outcome("", "", InternalServerError(ErrorText(rJoin.err)), <<join>>)
            ELSE IF ~a.ok
            THEN Outcome("", "", InternalServerError(<<"Type assertion failed">>), <<join>>)
            ELSE Outcome("", a.handle, NoError, <<join>>)

AddInteractionToHandleOutcome(cl, handle, rJoin) ==
    IF cl = "nil"
    THEN Outcome("", "", NillPortlayerClientError("IsolationProxy"), <<>>)
    ELSE LET join == Call("Interaction.InteractionJoin", handle, <<>>, rJoin)
             a == TypeAssertString(rJoin.payload)
         IN IF ~rJoin.ok
            THEN Outcome("", "", InternalServerError(ErrorText(rJoin.err)), <<join>>)
            ELSE IF ~a.ok
            THEN Outcome("", "", InternalServerError(<<"Type assertion failed">>), <<join>>)
            ELSE Outcome("", a.handle, NoError, <<join>>)

\* CommitError without the case for a conflict
CommitError_NoConflictCase(e, containerID) ==
    CASE e.variant = "NotFound" -> NotFoundError(<<containerID>>)
      [] e.variant = "Default" -> InternalServerError(PayloadMessage(e))
      [] OTHER -> InternalServerError(ErrorText(e))

\* the error CommitHandle returns for a failed Containers.Commit
CommitError(e, containerID) ==
    CASE e.variant = "NotFound" -> NotFoundError(<<containerID>>)
      [] e.variant = "Conflict" -> ConflictError(ErrorText(e))
      [] e.variant = "Default" -> InternalServerError(PayloadMessage(e))
      [] OTHER -> InternalServerError(ErrorText(e))

\* CommitParams passing on a wait time of zero as well
CommitParams_ZeroWait(handle, waitTime) ==
    IF waitTime >= 0
    THEN [Handle |-> handle, hasWaitTime |-> TRUE, WaitTime |-> waitTime]
    ELSE [Handle |-> handle, hasWaitTime |-> FALSE, WaitTime |-> 0]

\* the CommitParams: the wait time is set only when it is positive
CommitParams(handle, waitTime) ==
    IF waitTime > 0
    THEN [Handle |-> handle, hasWaitTime |-> TRUE, WaitTime |-> waitTime]
    ELSE [Handle |-> handle, hasWaitTime |-> FALSE, WaitTime |-> 0]

\* CommitHandleOutcome retrying a failed commit once and then removing the
\* container from its scope
CommitHandleOutcome_RetryAndRollback(cl, handle, containerID, waitTime, rCommit) ==
    IF cl = "nil"
    THEN Outcome("", "", NillPortlayerClientError("IsolationProxy"), <<>>)
    ELSE LET commit == Call("Containers.Commit", handle, CommitParams(handle, waitTime), rCommit)
             remove == Call("Scopes.RemoveContainer", handle, [Scope |-> "default"],
                            OkResp(NoPayload))
         IN IF ~rCommit.ok
            THEN Outcome("", "", CommitError(rCommit.err, containerID),
                         <<commit, commit, remove>>)
            ELSE Outcome("", "", NoError, <<commit>>)

CommitHandleOutcome(cl, handle, containerID, waitTime, rCommit) ==
    IF cl = "nil"
    THEN Outcome("", "", NillPortlayerClientError("IsolationProxy"), <<>>)
    ELSE LET commit == Call("Containers.Commit", handle, CommitParams(handle, waitTime), rCommit)
         IN IF ~rCommit.ok
            THEN Outcome("", "", CommitError(rCommit.err, containerID), <<commit>>)
            ELSE Outcome("", "", NoError, <<commit>>)

\* StateChangeError without the case for not-found
StateChangeError_NoNotFoundCase(e, name) ==
    CASE e.variant = "Default" -> InternalServerError(PayloadMessage(e))
      [] OTHER -> InternalServerError(ErrorText(e))

\* the error SetState returns for a failed Containers.StateChange
StateChangeError(e, name) ==
    CASE e.variant = "NotFound" -> NotFoundError(<<name>>)
      [] e.variant = "Default" -> InternalServerError(PayloadMessage(e))
      [] OTHER -> InternalServerError(ErrorText(e))

SetStateOutcome(cl, handle, name, state, rChange) ==
    IF cl = "nil"
    THEN Outcome("", "", NillPortlayerClientError("IsolationProxy"), <<>>)
    ELSE LET change == Call("Containers.StateChange", handle, [State |-> state], rChange)
         IN IF ~rChange.ok
            THEN Outcome("", "", StateChangeError(rChange.err, name), <<change>>)
            ELSE Outcome("", rChange.payload.val, NoError, <<change>>)

----------------------------------------------------------------------------
(* PodProxy *)

\* A Go string that is split at "=" is a sequence of tokens: each "=" is a
\* token of its own, and the text between two of them is one token.
\* "TERM=xterm" is <<"TERM", "=", "xterm">>.
defaultEnvPath == "/usr/local/sbin:/usr/local/bin:/usr/sbin:/usr/bin:/sbin:/bin"

\* strings.HasPrefix(v, "PATH=")
HasPrefixPATH(v) == Len(v) >= 2 /\ v[1] = "PATH" /\ v[2] = "="

\* the position of the first "=" of e, 0 when it has none
FirstEq(e) ==
    IF \E i \in DOMAIN e : e[i] = "="
    THEN CHOOSE i \in DOMAIN e : e[i] = "=" /\ \A j \in 1..(i - 1) : e[j] # "="
    ELSE 0

\* strings.SplitN(e, "=", 2)
SplitN2(e) ==
    IF FirstEq(e) = 0
    THEN <<e>>
    ELSE <<SubSeq(e, 1, FirstEq(e) - 1), SubSeq(e, FirstEq(e) + 1, Len(e))>>

setPathFromImageConfig(env, imgEnv) ==
    IF \E i \in DOMAIN env : HasPrefixPATH(env[i])
    THEN env
    ELSE IF \E i \in DOMAIN imgEnv : HasPrefixPATH(imgEnv[i])
    THEN LET i == CHOOSE k \in DOMAIN imgEnv :
                      HasPrefixPATH(imgEnv[k]) /\ \A j \in 1..(k - 1) : ~HasPrefixPATH(imgEnv[j])
         IN Append(env, imgEnv[i])
    ELSE Append(env, <<"PATH", "=", defaultEnvPath>>)

\* setEnvFromImageConfig without the TERM=xterm of a terminal, and with the
\* image's TERM appended whatever the user set
setEnvFromImageConfig_ImageTerm(tty, env, imgEnv) ==
    LET withPath == setPathFromImageConfig(env, imgEnv)
        containerEnv == {SplitN2(withPath[i])[1] : i \in DOMAIN withPath}
    IN withPath \o SelectSeq(imgEnv, LAMBDA e : SplitN2(e)[1] \notin containerEnv \ {<<"TERM">>})

setEnvFromImageConfig(tty, env, imgEnv) ==
    LET withPath == setPathFromImageConfig(env, imgEnv)
        \* the keys of the map containerEnv
        containerEnv == {SplitN2(withPath[i])[1] : i \in DOMAIN withPath}
        withTerm == IF tty /\ <<"TERM">> \notin containerEnv
                    THEN Append(withPath, <<"TERM", "=", "xterm">>)
                    ELSE withPath
    IN withTerm \o SelectSeq(imgEnv, LAMBDA e : SplitN2(e)[1] \notin containerEnv)

\* a Go map used as a set; nil when isNil
NilVolumes == [isNil |-> TRUE, keys |-> {}]

\* setCreateConfigOptions taking the entrypoint and the volumes of the image
\* whatever the user set
setCreateConfigOptions_ImageWins(config, imageConfig) ==
    [config EXCEPT
        !.Cmd = IF Len(config.Cmd) = 0 THEN imageConfig.Cmd ELSE config.Cmd,
        !.WorkingDir = IF config.WorkingDir = "" THEN imageConfig.WorkingDir
                       ELSE config.WorkingDir,
        !.Entrypoint = imageConfig.Entrypoint,
        !.Volumes = imageConfig.Volumes,
        !.User = IF config.User = "" THEN imageConfig.User ELSE config.User,
        !.Env = setEnvFromImageConfig(config.Tty, config.Env, imageConfig.Env)]

\* the container.Config after the image's values filled what the user left unset
setCreateConfigOptions(config, imageConfig) ==
    [config EXCEPT
        !.Cmd = IF Len(config.Cmd) = 0 THEN imageConfig.Cmd ELSE config.Cmd,
        !.WorkingDir = IF config.WorkingDir = "" THEN imageConfig.WorkingDir
                       ELSE config.WorkingDir,
        !.Entrypoint = IF Len(config.Entrypoint) = 0 THEN imageConfig.Entrypoint
                       ELSE config.Entrypoint,
        !.Volumes = IF config.Volumes.isNil THEN imageConfig.Volumes
                    ELSE [isNil |-> FALSE,
                          keys |-> config.Volumes.keys \cup imageConfig.Volumes.keys],
        !.User = IF config.User = "" THEN imageConfig.User ELSE config.User,
        !.Env = setEnvFromImageConfig(config.Tty, config.Env, imageConfig.Env)]

----------------------------------------------------------------------------
(* validateCreateConfig *)

\* A Go string that is parsed as a number is a sequence of characters:
\* "0-3" is <<"0", "-", "3">>.
MemoryAlignMB == 128

MemoryMinMB == 512

MemoryDefaultMB == 2048

MinCPUs == 1

\* DefaultCPUs of package vic (the proxy package has a constant of the same name)
VicDefaultCPUs == 2

\* units.MiB
MiB == 1048576

BadRequestError(m) == [kind |-> "BadRequestError", msg |-> m]

\* GoDiv rounding toward minus infinity
GoDiv_Floor(a, b) == a \div b

\* Go's integer division, which truncates toward zero (b > 0)
GoDiv(a, b) == IF a >= 0 THEN a \div b ELSE -((-a) \div b)

\* Go's remainder, which has the sign of the dividend
GoMod(a, b) == a - b * GoDiv(a, b)

DigitChars == <<"0", "1", "2", "3", "4", "5", "6", "7", "8", "9">>

IsDigit(c) == \E i \in DOMAIN DigitChars : DigitChars[i] = c

DigitVal(c) == (CHOOSE i \in DOMAIN DigitChars : DigitChars[i] = c) - 1

\* the value of a sequence of decimal digits
RECURSIVE DecimalValue(_)
DecimalValue(s) ==
    IF Len(s) = 0 THEN 0
    ELSE 10 * DecimalValue(SubSeq(s, 1, Len(s) - 1)) + DigitVal(s[Len(s)])

\* strconv.Atoi: an optional sign and at least one decimal digit, nothing else
Atoi(s) ==
    LET signed == Len(s) > 0 /\ s[1] \in {"+", "-"}
        digits == IF signed THEN Tail(s) ELSE s
    IN IF Len(digits) > 0 /\ \A i \in DOMAIN digits : IsDigit(digits[i])
       THEN [ok |-> TRUE,
             val |-> IF s[1] = "-" THEN -DecimalValue(digits) ELSE DecimalValue(digits)]
       ELSE [ok |-> FALSE, val |-> 0]

\* strings.Split(s, ",")[0]
FirstOfSplit(s) ==
    IF \E i \in DOMAIN s : s[i] = ","
    THEN SubSeq(s, 1, (CHOOSE i \in DOMAIN s :
                          s[i] = "," /\ \A j \in 1..(i - 1) : s[j] # ",") - 1)
    ELSE s

\* cpuCount with the default equal to the minimum and an unparsable CPU set
\* read as the minimum
cpuCount_MinForAll(hc) ==
    IF hc.CPUCount > 0
    THEN [ok |-> TRUE, count |-> hc.CPUCount]
    ELSE IF hc.CpusetCpus = <<>> \/ ~Atoi(FirstOfSplit(hc.CpusetCpus)).ok
    THEN [ok |-> TRUE, count |-> MinCPUs]
    ELSE LET c == Atoi(FirstOfSplit(hc.CpusetCpus)).val
         IN [ok |-> TRUE, count |-> IF c < MinCPUs THEN MinCPUs ELSE c]

\* the CPU count validateCreateConfig stores: CPUCount if positive, else the
\* first element of CpusetCpus, else the default, raised to MinCPUs; not ok
\* when the element does not parse
cpuCount(hc) ==
    IF hc.CPUCount > 0
    THEN [ok |-> TRUE, count |-> hc.CPUCount]
    ELSE IF hc.CpusetCpus = <<>>
    THEN [ok |-> TRUE, count |-> IF VicDefaultCPUs < MinCPUs THEN MinCPUs ELSE VicDefaultCPUs]
    ELSE LET c == Atoi(FirstOfSplit(hc.CpusetCpus))
         IN IF c.ok
            THEN [ok |-> TRUE, count |-> IF c.val < MinCPUs THEN MinCPUs ELSE c.val]
            ELSE [ok |-> FALSE, count |-> hc.CPUCount]

\* memoryMB without the alignment step
memoryMB_NoAlign(bytes) ==
    LET mb == GoDiv(bytes, MiB)
    IN IF mb = 0 THEN MemoryDefaultMB
       ELSE IF mb < MemoryMinMB THEN MemoryMinMB
       ELSE mb

\* the memory validateCreateConfig stores, in MiB
memoryMB(bytes) ==
    LET mb == GoDiv(bytes, MiB)
        floored == IF mb = 0 THEN MemoryDefaultMB
                   ELSE IF mb < MemoryMinMB THEN MemoryMinMB
                   ELSE mb
        remainder == GoMod(floored, MemoryAlignMB)
    IN IF remainder # 0 THEN floored + (MemoryAlignMB - remainder) ELSE floored

\* the HostConfig a nil HostConfig is replaced by
ZeroHostConfig == [CPUCount |-> 0, CpusetCpus |-> <<>>, Memory |-> 0]

\* the error validateCreateConfig returns and the HostConfig it leaves
validateCreateConfig(config) ==
    IF ~config.hasConfig
    THEN [err |-> BadRequestError(<<"invalid config">>),
          hasHostConfig |-> config.hasHostConfig, HostConfig |-> config.HostConfig]
    ELSE LET hc == IF config.hasHostConfig THEN config.HostConfig ELSE ZeroHostConfig
             cpu == cpuCount(hc)
         IN IF ~cpu.ok
            THEN [err |-> [kind |-> "error", msg |-> <<"Error parsing CPU count: ">>],
                  hasHostConfig |-> TRUE, HostConfig |-> hc]
            ELSE [err |-> NoError,
                  hasHostConfig |-> TRUE,
                  HostConfig |-> [hc EXCEPT !.CPUCount = cpu.count,
                                            !.Memory = memoryMB(hc.Memory)]]

Images == {"busybox", "nginx"}

\* the v1.Container entries of a pod spec
ContainerSpecs ==
    [Name : {"a", "b"}, Image : Images, Command : {<<>>, <<"sleep">>}, WorkingDir : {""},
     TTY : BOOLEAN, StdinOnce : {FALSE}, Stdin : {FALSE}, CPU : {0}, Memory : {0}]

Pods == [Name : {"pod"}, Containers : SeqUpTo(ContainerSpecs, MaxContainers)]

\* the image configuration the image store holds for an image
ImageConfig(image) ==
    IF image = "busybox"
    THEN [Cmd |-> <<"sh">>, Entrypoint |-> <<>>, WorkingDir |-> "", User |-> "",
          Volumes |-> NilVolumes, Env |-> <<<<"PATH", "=", "/bin">>>>]
    ELSE [Cmd |-> <<"-g">>, Entrypoint |-> <<"nginx">>, WorkingDir |-> "/www",
          User |-> "www", Volumes |-> [isNil |-> FALSE, keys |-> {"/data"}],
          Env |-> <<<<"TERM", "=", "vt100">>, <<"NGINX", "=", "1">>>>]

\* p.imageStore.Get(image): an image configuration or an error
ImageStoreGetResults(image) ==
    {[ok |-> TRUE, image |-> ImageConfig(image), err |-> <<>>],
     [ok |-> FALSE, image |-> <<>>, err |-> <<"no such image", image>>]}

\* the fields KubeSpecToDockerCreateSpec leaves unset hold their zero values
KubeSpecToDockerCreateSpec(cSpec) ==
    [Name |-> cSpec.Name,
     Config |-> [WorkingDir |-> cSpec.WorkingDir, Image |-> cSpec.Image, Tty |-> cSpec.TTY,
                 StdinOnce |-> cSpec.StdinOnce, OpenStdin |-> cSpec.Stdin,
                 Cmd |-> IF Len(cSpec.Command) # 0 THEN cSpec.Command ELSE <<>>,
                 Entrypoint |-> <<>>, User |-> "", Env |-> <<>>, Volumes |-> NilVolumes],
     HostConfig |-> [CPUCount |-> cSpec.CPU, Memory |-> cSpec.Memory]]

\* createContainer: the error it returns and the configuration it leaves
\* behind (and logs); it issues no remote call
createContainer(config, getRes) ==
    IF ~getRes.ok
    THEN [err |-> [kind |-> "error",
                   msg |-> <<"PodProxy failed to get image">> \o getRes.err],
          config |-> config.Config]
    ELSE [err |-> NoError,
          config |-> setCreateConfigOptions(config.Config, getRes.image)]

\* the loop of CreatePod over containers[i..]: one createContainer per
\* container, a failure is logged and the loop goes on
RECURSIVE CreateContainers(_, _, _)
CreateContainers(containers, getRes, i) ==
    IF i > Len(containers)
    THEN <<>>
    ELSE LET createConfig == KubeSpecToDockerCreateSpec(containers[i])
             created == createContainer(createConfig, getRes[i])
         IN <<[container |-> containers[i], name |-> createConfig.Name,
               err |-> created.err, config |-> created.config,
               logged |-> created.err # NoError]>>
            \o CreateContainers(containers, getRes, i + 1)

\* the attempts made before and including the first one that failed
RECURSIVE UpToFirstFailure(_)
UpToFirstFailure(as) ==
    IF as = <<>> THEN <<>>
    ELSE IF Head(as).err # NoError THEN <<Head(as)>>
    ELSE <<Head(as)>> \o UpToFirstFailure(Tail(as))

\* CreatePodOutcome giving up at the first container that fails and
\* returning its error
CreatePodOutcome_AbortOnFailure(pod, getRes) ==
    LET as == UpToFirstFailure(CreateContainers(pod.Containers, getRes, 1))
    IN [attempts |-> as, calls |-> <<>>,
        err |-> IF as # <<>> /\ as[Len(as)].err # NoError THEN as[Len(as)].err ELSE NoError]

\* PodProxy.CreatePod: every container is attempted, nil is returned
CreatePodOutcome(pod, getRes) ==
    [attempts |-> CreateContainers(pod.Containers, getRes, 1), calls |-> <<>>,
     err |-> NoError]

----------------------------------------------------------------------------
Init ==
    /\ client = "pl"
    /\ pc = "ready"
    /\ op = "none"
    /\ inp = <<>>
    /\ calls = <<>>
    /\ ret = Returned(Outcome("", "", NoError, <<>>))
    /\ attempts = <<>>

\* an operation ran with arguments args and ended as out
Finish(name, args, out) ==
    /\ pc' = "done"
    /\ op' = name
    /\ inp' = args
    /\ calls' = out.calls
    /\ ret' = Returned(out)
    /\ UNCHANGED <<client, attempts>>

(* One action per operation of the IsolationProxy interface *)

Names == {"web"}

LayerIDs == {"layer1"}

DeltaIDs == {"delta1"}

ImageIDs == {"img1"}

States == {"RUNNING", "STOPPED"}

\* int32 wait times given to CommitHandle
WaitTimes == {-1, 0, 1, 30}

CreateHandle ==
    /\ pc = "ready"
    /\ \E env \in HostEnvs, rCreate \in CreateResponses :
           Finish("CreateHandle", [env |-> env], CreateHandleOutcome(client, env, rCreate))

Handle ==
    /\ pc = "ready"
    /\ \E id \in ContainerIDs, name \in Names, rGet \in StringResponses :
           Finish("Handle", [id |-> id, name |-> name], HandleOutcome(client, id, name, rGet))

AddImageToHandle ==
    /\ pc = "ready"
    /\ \E env \in HostEnvs, handle \in Handles, deltaID \in DeltaIDs, layerID \in LayerIDs,
          imageID \in ImageIDs, imageName \in Names, rJoin \in HandleResponses :
           Finish("AddImageToHandle",
                  [env |-> env, handle |-> handle, deltaID |-> deltaID, layerID |-> layerID,
                   imageID |-> imageID, imageName |-> imageName],
                  AddImageToHandleOutcome(client, env, handle, deltaID, layerID, imageID,
                                          imageName, rJoin))

CreateHandleTask ==
    /\ pc = "ready"
    /\ \E handle \in Handles, id \in ContainerIDs, layerID \in LayerIDs, config \in TaskConfigs,
          rJoin \in HandleResponses, rBind \in HandleResponses :
           Finish("CreateHandleTask",
                  [handle |-> handle, id |-> id, layerID |-> layerID, config |-> config],
                  CreateHandleTaskOutcome(client, handle, id, layerID, config, rJoin, rBind))

AddHandleToScope ==
    /\ pc = "ready"
    /\ \E handle \in Handles, config \in ScopeConfigs, rAdd \in StringResponses,
          rRemove \in PlainResponses :
           \E order \in RangeOrders(config.PortMap) :
               Finish("AddHandleToScope", [handle |-> handle, config |-> config],
                      AddHandleToScopeOutcome(client, handle, config, order, rAdd, rRemove))

AddLoggingToHandle ==
    /\ pc = "ready"
    /\ \E handle \in Handles, rJoin \in HandleResponses :
           Finish("AddLoggingToHandle", [handle |-> handle],
                  AddLoggingToHandleOutcome(client, handle, rJoin))

AddInteractionToHandle ==
    /\ pc = "ready"
    /\ \E handle \in Handles, rJoin \in HandleResponses :
           Finish("AddInteractionToHandle", [handle |-> handle],
                  AddInteractionToHandleOutcome(client, handle, rJoin))

CommitHandle ==
    /\ pc = "ready"
    /\ \E handle \in Handles, containerID \in ContainerIDs, waitTime \in WaitTimes,
          rCommit \in PlainResponses :
           Finish("CommitHandle",
                  [handle |-> handle, containerID |-> containerID, waitTime |-> waitTime],
                  CommitHandleOutcome(client, handle, containerID, waitTime, rCommit))

SetState ==
    /\ pc = "ready"
    /\ \E handle \in Handles, name \in Names, state \in States, rChange \in StringResponses :
           Finish("SetState", [handle |-> handle, name |-> name, state |-> state],
                  SetStateOutcome(client, handle, name, state, rChange))

\* the image store's answers to the Get calls of one CreatePod, one per container
GetResultSeqs(containers) ==
    {r \in [1..Len(containers) -> UNION {ImageStoreGetResults(i) : i \in Images}] :
        \A i \in 1..Len(containers) : r[i] \in ImageStoreGetResults(containers[i].Image)}

CreatePod ==
    /\ pc = "ready"
    /\ \E pod \in Pods :
         \E getRes \in GetResultSeqs(pod.Containers) :
           LET out == CreatePodOutcome(pod, getRes)
           IN /\ pc' = "done"
              /\ op' = "CreatePod"
              /\ inp' = [pod |-> pod]
              /\ attempts' = out.attempts
              /\ calls' = out.calls
              /\ ret' = Returned(Outcome("", "", out.err, out.calls))
              /\ UNCHANGED client

(* The image store of the proxy package: VicImageStore.Get and PullImage *)

\* a *metadata.ImageConfig: nil, or the configuration of an image
NilImageConfig == [isNil |-> TRUE, image |-> ""]

CachedImageConfig(image) == [isNil |-> FALSE, image |-> image]

\* what cache.ImageCache().Get(idOrRef) answers: the configuration, or an error
CacheResponses(idOrRef) ==
    {[ok |-> TRUE, config |-> CachedImageConfig(idOrRef), err |-> NoError],
     [ok |-> FALSE, config |-> NilImageConfig,
      err |-> [kind |-> "error", msg |-> <<"image not found in cache">>]]}

\* what the persona answers to the POST: no response at all, or a status code
\* and a body that can or cannot be read
PullResponses ==
    {[posted |-> FALSE, status |-> 0, bodyRead |-> FALSE]}
      \cup [posted : {TRUE}, status : {200, 404, 500}, bodyRead : BOOLEAN]

personaAddr == "persona"

\* the URL PullImage posts to
PullURL(image, tag) ==
    IF tag = ""
    THEN <<"http://", personaAddr, "/v1.35/images/create?fromImage=", image>>
    ELSE <<"http://", personaAddr, "/v1.35/images/create?fromImage=", image, "&tag=", tag>>

\* the error PullImage returns for the persona's answer
PullImage(image, tag, rPull) ==
    IF ~rPull.posted
    THEN [kind |-> "error", msg |-> <<"post failed">>]
    ELSE IF rPull.status # 200
    THEN [kind |-> "error", msg |-> <<"Error from docker pull: status = ">>]
    ELSE IF ~rPull.bodyRead
    THEN [kind |-> "error", msg |-> <<"Error reading docker pull response: error = ">>]
    ELSE NoError

CacheGetCall(idOrRef, r) == Call("cache.Get", "", [idOrRef |-> idOrRef], r)

PullCall(image, tag, rPull) ==
    Call("http.Post", "", [url |-> PullURL(image, tag)], rPull)

\* GetOutcome pulling on every cache miss, whatever actuate is, and pulling
\* a second time when the first pull fails
GetOutcome_PullAlways(idOrRef, tag, actuate, rFirst, rPull, rSecond) ==
    LET first == CacheGetCall(idOrRef, rFirst)
        pull == PullCall(idOrRef, tag, rPull)
        second == CacheGetCall(idOrRef, rSecond)
    IN IF ~rFirst.ok
       THEN IF PullImage(idOrRef, tag, rPull) = NoError
            THEN IF ~rSecond.ok
                 THEN [config |-> NilImageConfig, err |-> rSecond.err,
                       calls |-> <<first, pull, second>>]
                 ELSE [config |-> rSecond.config, err |-> NoError,
                       calls |-> <<first, pull, second>>]
            ELSE [config |-> rFirst.config, err |-> NoError, calls |-> <<first, pull, pull>>]
       ELSE [config |-> rFirst.config, err |-> NoError, calls |-> <<first>>]

\* Get: the configuration and the error it returns, and the cache lookups
\* and the pull it issues
GetOutcome(idOrRef, tag, actuate, rFirst, rPull, rSecond) ==
    LET first == CacheGetCall(idOrRef, rFirst)
        pull == PullCall(idOrRef, tag, rPull)
        second == CacheGetCall(idOrRef, rSecond)
    IN IF ~rFirst.ok /\ actuate
       THEN IF PullImage(idOrRef, tag, rPull) = NoError
            THEN IF ~rSecond.ok
                 THEN [config |-> NilImageConfig, err |-> rSecond.err,
                       calls |-> <<first, pull, second>>]
                 ELSE [config |-> rSecond.config, err |-> NoError,
                       calls |-> <<first, pull, second>>]
            ELSE [config |-> rFirst.config, err |-> NoError, calls |-> <<first, pull>>]
       ELSE [config |-> rFirst.config, err |-> NoError, calls |-> <<first>>]

Tags == {"", "latest"}

Get ==
    /\ pc = "ready"
    /\ \E idOrRef \in Images, tag \in Tags, actuate \in BOOLEAN, rPull \in PullResponses :
       \E rFirst \in CacheResponses(idOrRef), rSecond \in CacheResponses(idOrRef) :
         LET out == GetOutcome(idOrRef, tag, actuate, rFirst, rPull, rSecond)
         IN /\ pc' = "done"
            /\ op' = "Get"
            /\ inp' = [idOrRef |-> idOrRef, tag |-> tag, actuate |-> actuate]
            /\ calls' = out.calls
            /\ ret' = [config |-> out.config, err |-> out.err]
            /\ UNCHANGED <<client, attempts>>

(* One action per utility function of the pod proxy *)

\* a utility function was applied to args and returned result
Apply(name, args, result) ==
    /\ pc' = "done"
    /\ op' = name
    /\ inp' = args
    /\ calls' = <<>>
    /\ ret' = result
    /\ UNCHANGED <<client, attempts>>

\* the longest environment given to setEnvFromImageConfig
MaxEnv == 2

\* entries a user writes: PATH with and without a value, TERM, a variable
UserEnvEntries ==
    {<<"PATH", "=", "/u">>, <<"PATH">>, <<"TERM", "=", "linux">>, <<"A", "=", "1">>}

\* entries of an image: PATH, TERM, the user's variable, one of its own
ImageEnvEntries ==
    {<<"PATH", "=", "/i">>, <<"TERM", "=", "vt100">>, <<"A", "=", "2">>, <<"B", "=", "3">>}

SetEnvFromImageConfig ==
    /\ pc = "ready"
    /\ \E tty \in BOOLEAN, env \in SeqUpTo(UserEnvEntries, MaxEnv),
          imgEnv \in SeqUpTo(ImageEnvEntries, MaxEnv) :
         Apply("setEnvFromImageConfig",
               [tty |-> tty, env |-> env, imgEnv |-> imgEnv],
               [env |-> setEnvFromImageConfig(tty, env, imgEnv)])

\* volume maps: nil, empty, and with keys
VolumeMaps ==
    {NilVolumes} \cup {[isNil |-> FALSE, keys |-> k] : k \in SUBSET {"/data", "/v"}}

\* what a user sets in a container.Config: each value set or left empty
UserConfigs ==
    [Cmd : {<<>>, <<"sleep", "1">>}, Entrypoint : {<<>>, <<"/run">>},
     WorkingDir : {"", "/home"}, User : {"", "root"}, Volumes : VolumeMaps,
     Env : {<<>>}, Tty : {FALSE}, Image : {"nginx"}, StdinOnce : {FALSE},
     OpenStdin : {FALSE}]

\* what an image configuration holds: each value set or empty
ImageConfigs ==
    [Cmd : {<<>>, <<"sh">>}, Entrypoint : {<<>>, <<"/init">>},
     WorkingDir : {"", "/www"}, User : {"", "www"}, Volumes : VolumeMaps,
     Env : {<<<<"PATH", "=", "/bin">>>>}]

SetCreateConfigOptions ==
    /\ pc = "ready"
    /\ \E config \in UserConfigs, imageConfig \in ImageConfigs :
         Apply("setCreateConfigOptions",
               [config |-> config, imageConfig |-> imageConfig],
               [config |-> setCreateConfigOptions(config, imageConfig)])

CPUCounts == {-1, 0, 1, 4}

\* --cpuset-cpus values: none, single CPUs, lists, ranges, signed, not a number
CpusetStrings ==
    {<<>>, <<"0">>, <<"2">>, <<"1", "2">>, <<"0", "3">>, <<"-", "1">>, <<"+", "3">>,
     <<"0", "-", "3">>, <<"1", ",", "2">>, <<"0", ",", "1">>, <<"a">>, <<",", "1">>,
     <<"-">>, <<"2", " ">>}

\* whole MiB counts around zero, the floor, the alignment and the default
MemoryMiBs == {0, 1, 127, 128, 511, 512, 513, 600, 640, 1024, 2046}

\* memory in bytes: a MiB count, exact or with a rest, positive or negative
MemoryBytes ==
    {s * (k * MiB + d) : s \in {-1, 1}, k \in MemoryMiBs, d \in {0, 1, MiB - 1}}

HostConfigs ==
    [CPUCount : CPUCounts, CpusetCpus : CpusetStrings, Memory : MemoryBytes]

\* a ContainerCreateConfig: Config or HostConfig may be nil
CreateConfigs ==
    {[hasConfig |-> TRUE, hasHostConfig |-> TRUE, HostConfig |-> hc] : hc \in HostConfigs}
      \cup {[hasConfig |-> c, hasHostConfig |-> FALSE, HostConfig |-> ZeroHostConfig] :
               c \in BOOLEAN}
      \cup {[hasConfig |-> FALSE, hasHostConfig |-> TRUE, HostConfig |-> ZeroHostConfig]}

ValidateCreateConfig ==
    /\ pc = "ready"
    /\ \E config \in CreateConfigs :
         Apply("validateCreateConfig", [config |-> config], validateCreateConfig(config))

Next ==
    \/ CreatePod
    \/ CreateHandle
    \/ Handle
    \/ AddImageToHandle
    \/ CreateHandleTask
    \/ AddHandleToScope
    \/ AddLoggingToHandle
    \/ AddInteractionToHandle
    \/ CommitHandle
    \/ SetState
    \/ Get
    \/ SetCreateConfigOptions
    \/ SetEnvFromImageConfig
    \/ ValidateCreateConfig

Spec == Init /\ [][Next]_vars

----------------------------------------------------------------------------
(* Properties of AddHandleToScope *)

ScopeRan == pc = "done" /\ op = "AddHandleToScope"

\* the Scopes.AddContainer call of the operation failed
ScopeJoinFailed ==
    /\ ScopeRan
    /\ Len(calls) >= 1
    /\ calls[1].api = "Scopes.AddContainer"
    /\ ~calls[1].resp.ok

\* the positions of the calls to api in the call log
CallsTo(api) == {i \in DOMAIN calls : calls[i].api = api}

\* C1: with an empty port map AddHandleToScope returns the input handle
\* unchanged, returns no error and issues no remote scope call.
C1_EmptyPortMapIsNoOp ==
    (ScopeRan /\ DOMAIN inp.config.PortMap = {}) =>
        /\ ret.handle = inp.handle
        /\ ret.err = NoError
        /\ calls = <<>>

\* C2: with at least one port binding, a failed scope join is followed by
\* exactly one Scopes.RemoveContainer call before the operation returns.
C2_RollbackAfterFailedJoin ==
    (ScopeJoinFailed /\ DOMAIN inp.config.PortMap # {}) =>
        /\ Cardinality(CallsTo("Scopes.RemoveContainer")) = 1
        /\ \A i \in CallsTo("Scopes.RemoveContainer") : i > 1

\* C3: when the scope join fails, the error returned is the internal error
\* made from the join's error, whatever a removal call would answer.
C3_JoinErrorReturned ==
    ScopeJoinFailed =>
        /\ ~ret.panicked
        /\ ret.err = InternalServerError(ErrorText(calls[1].resp.err))

\* a failed join on a configuration with port bindings
C3_Witness ==
    /\ ScopeJoinFailed
    /\ DOMAIN inp.config.PortMap # {}
    /\ ret.err.kind = "InternalServerError"

----------------------------------------------------------------------------
(* Properties of CreateHandleTask *)

TaskRan == pc = "done" /\ op = "CreateHandleTask"

\* C4: CreateHandleTask calls Tasks.Join with the caller's handle, then
\* Tasks.Bind, only after a successful join and with the handle the join
\* returned, and on success returns the handle the bind returned.
C4_JoinThenBind ==
    TaskRan =>
        /\ Len(calls) <= 2
        /\ Len(calls) >= 1 =>
              /\ calls[1].api = "Tasks.Join"
              /\ calls[1].handle = inp.handle
        /\ Len(calls) = 2 =>
              /\ calls[2].api = "Tasks.Bind"
              /\ calls[1].resp.ok
              /\ calls[1].resp.payload.isString
              /\ calls[2].handle = calls[1].resp.payload.val
        /\ (ret.err = NoError /\ ~ret.panicked) =>
              /\ Len(calls) = 2
              /\ calls[2].resp.ok
              /\ ret.handle = calls[2].resp.payload.val

\* a successful run in which the join returned another handle than the one
\* given and the bind another one than the join
C4_Witness ==
    /\ TaskRan
    /\ ret.err = NoError
    /\ ~ret.panicked
    /\ Len(calls) = 2
    /\ calls[1].resp.payload.val # inp.handle
    /\ calls[2].resp.payload.val # calls[1].resp.payload.val

\* C5: when Tasks.Join fails, CreateHandleTask returns an internal error and
\* issues no further remote call.
C5_JoinFailureStops ==
    (TaskRan /\ Len(calls) >= 1 /\ ~calls[1].resp.ok) =>
        /\ ret.err.kind = "InternalServerError"
        /\ ret.err = InternalServerError(ErrorText(calls[1].resp.err))
        /\ Len(calls) = 1
        /\ calls[1].api = "Tasks.Join"

\* a run whose task join failed
C5_Witness ==
    /\ TaskRan
    /\ Len(calls) = 1
    /\ calls[1].api = "Tasks.Join"
    /\ ~calls[1].resp.ok
    /\ ret.err.kind = "InternalServerError"

----------------------------------------------------------------------------
(* Properties of CreatePod *)

PodRan == pc = "done" /\ op = "CreatePod"

\* the remote calls of the handle pipeline, in order
PipelineApis ==
    <<"Containers.Create", "Storage.ImageJoin", "Tasks.Join", "Tasks.Bind",
      "Scopes.AddContainer", "Logging.LoggingJoin", "Interaction.InteractionJoin",
      "Containers.Commit">>

\* the call log holds the calls of one pipeline, in order, each but the first
\* fed with the handle its predecessor returned, and the commit succeeded
PipelineCommitted ==
    \E f \in [DOMAIN PipelineApis -> DOMAIN calls] :
        /\ \A k \in DOMAIN PipelineApis : calls[f[k]].api = PipelineApis[k]
        /\ \A k \in DOMAIN PipelineApis : calls[f[k]].resp.ok
        /\ \A k \in 2..Len(PipelineApis) :
              /\ f[k - 1] < f[k]
              /\ calls[f[k]].handle = calls[f[k - 1]].resp.payload.val

\* C6: for every container CreatePod runs the pipeline CreateHandle,
\* AddImageToHandle, CreateHandleTask, AddHandleToScope, AddLoggingToHandle,
\* AddInteractionToHandle, CommitHandle, threading the handle, so a container
\* created without error is committed on the remote runtime.
C6_PodContainersCommitted ==
    PodRan =>
        \A i \in DOMAIN attempts : attempts[i].err = NoError => PipelineCommitted

\* C7: CreatePod attempts every container of the pod once, in pod-spec order,
\* whatever happened to the earlier ones, and returns nil.
C7_BestEffortFanOut ==
    PodRan =>
        /\ ~ret.panicked
        /\ ret.err = NoError
        /\ Len(attempts) = Len(inp.pod.Containers)
        /\ \A i \in DOMAIN attempts : attempts[i].container = inp.pod.Containers[i]

\* a pod whose first container failed and whose later ones were attempted
C7_Witness ==
    /\ PodRan
    /\ Len(attempts) >= 2
    /\ attempts[1].err # NoError
    /\ attempts[1].logged
    /\ attempts[2].err = NoError
    /\ ret.err = NoError

----------------------------------------------------------------------------
(* Properties of the error handling of the proxy *)

\* the remote calls whose response carries the handle as an interface{}
HandleApis ==
    {"Storage.ImageJoin", "Tasks.Join", "Tasks.Bind", "Logging.LoggingJoin",
     "Interaction.InteractionJoin"}

\* call i succeeded remotely but its payload's handle is not a string
Malformed(i) ==
    /\ calls[i].api \in HandleApis
    /\ calls[i].resp.ok
    /\ ~calls[i].resp.payload.isString

\* C8: a payload whose handle is not a string makes the operation return an
\* internal error and no handle, and it is the operation's last remote call
\* (no Tasks.Bind after a malformed Tasks.Join payload).
C8_MalformedPayloadIsInternalError ==
    pc = "done" =>
        \A i \in DOMAIN calls :
            Malformed(i) =>
                /\ ret.err.kind = "InternalServerError"
                /\ ret.handle = ""
                /\ i = Len(calls)

\* a CreateHandleTask whose task join answered with a malformed payload
C8_Witness ==
    /\ TaskRan
    /\ Len(calls) = 1
    /\ Malformed(1)
    /\ ret.err.kind = "InternalServerError"

CommitRan == pc = "done" /\ op = "CommitHandle" /\ Len(calls) = 1

\* C9: CommitHandle returns no error on success, a not-found error for a
\* remote not-found, a conflict error for a remote conflict and an internal
\* error for a remote default error or any other failure.
C9_CommitErrorMapping ==
    CommitRan =>
        LET r == calls[1].resp IN
        /\ r.ok => ret.err = NoError
        /\ (~r.ok /\ r.err.variant = "NotFound") => ret.err.kind = "NotFoundError"
        /\ (~r.ok /\ r.err.variant = "Conflict") => ret.err.kind = "ConflictError"
        /\ (~r.ok /\ r.err.variant \notin {"NotFound", "Conflict"}) =>
              ret.err.kind = "InternalServerError"

\* a commit the remote runtime refused with a conflict
C9_Witness ==
    /\ CommitRan
    /\ ~calls[1].resp.ok
    /\ calls[1].resp.err.variant = "Conflict"
    /\ ret.err.kind = "ConflictError"

StateRan == pc = "done" /\ op = "SetState" /\ Len(calls) = 1

\* C10 as stated: SetState maps a remote not-found to a not-found error, a
\* remote conflict to a conflict error and any other failure to an internal
\* error, and on success returns the handle of the response.
C10_SameTaxonomyAsCommit ==
    StateRan =>
        LET r == calls[1].resp IN
        /\ r.ok => (ret.err = NoError /\ ret.handle = r.payload.val)
        /\ (~r.ok /\ r.err.variant = "NotFound") => ret.err.kind = "NotFoundError"
        /\ (~r.ok /\ r.err.variant = "Conflict") => ret.err.kind = "ConflictError"
        /\ (~r.ok /\ r.err.variant \notin {"NotFound", "Conflict"}) =>
              ret.err.kind = "InternalServerError"

\* C10 amended: SetState maps a remote not-found to a not-found error and
\* every other failure, a conflict included, to an internal error; on
\* success it returns the handle of the response.
C10_StateChangeErrorMapping ==
    StateRan =>
        LET r == calls[1].resp IN
        /\ r.ok => (ret.err = NoError /\ ret.handle = r.payload.val)
        /\ (~r.ok /\ r.err.variant = "NotFound") =>
              (ret.err.kind = "NotFoundError" /\ ret.handle = "")
        /\ (~r.ok /\ r.err.variant # "NotFound") =>
              (ret.err.kind = "InternalServerError" /\ ret.handle = "")

\* a state change the remote runtime refused with a conflict
C10_Witness ==
    /\ StateRan
    /\ ~calls[1].resp.ok
    /\ calls[1].resp.err.variant = "Conflict"
    /\ ret.err.kind = "InternalServerError"

----------------------------------------------------------------------------
(* Properties of the requests the proxy builds *)

\* C11: the commit request carries the wait time exactly when the wait time
\* given is greater than 0, and then the caller's value; it always carries
\* the caller's handle.
C11_WaitTimeOnlyWhenPositive ==
    CommitRan =>
        /\ calls[1].api = "Containers.Commit"
        /\ calls[1].params.Handle = inp.handle
        /\ calls[1].params.hasWaitTime <=> inp.waitTime > 0
        /\ calls[1].params.hasWaitTime => calls[1].params.WaitTime = inp.waitTime

\* a commit with a wait time of zero, which the request leaves out
C11_Witness ==
    /\ CommitRan
    /\ inp.waitTime = 0
    /\ ~calls[1].params.hasWaitTime

CreateHandleRan == pc = "done" /\ op = "CreateHandle"

\* C12: without a host identity CreateHandle returns an internal error, no
\* container id and no handle, and issues no Containers.Create; with one, its
\* single Containers.Create uses the placeholder image and layer and the
\* host identity as image store name.
C12_HostIdentityAnchorsCreate ==
    CreateHandleRan =>
        IF inp.env.runningInVCH /\ ~inp.env.uuidOk
        THEN /\ ret.err.kind = "InternalServerError"
             /\ ret.id = ""
             /\ ret.handle = ""
             /\ calls = <<>>
        ELSE /\ Len(calls) = 1
             /\ calls[1].api = "Containers.Create"
             /\ calls[1].params.Image = DummyImage
             /\ calls[1].params.Layer = DummyLayerID
             /\ calls[1].params.RepoName = DummyRepoName
             /\ calls[1].params.ImageStore =
                    (IF inp.env.runningInVCH THEN "vch-uuid" ELSE "HostUUID")

\* a CreateHandle in a VCH whose UUID cannot be read
C12_Witness ==
    /\ CreateHandleRan
    /\ inp.env.runningInVCH
    /\ ~inp.env.uuidOk
    /\ ret.err.kind = "InternalServerError"
    /\ calls = <<>>

\* C13: the task join request takes path and arguments from the entrypoint
\* followed by the command when the entrypoint is not empty, and from the
\* command alone otherwise.
C13_PathAndArgs ==
    (TaskRan /\ Len(calls) >= 1) =>
        LET ic == inp.config
            p == calls[1].params
        IN IF Len(ic.Entrypoint) # 0
           THEN /\ p.Path = Head(ic.Entrypoint)
                /\ p.Args = Tail(ic.Entrypoint) \o ic.Cmd
           ELSE /\ p.Path = Head(ic.Cmd)
                /\ p.Args = Tail(ic.Cmd)

\* the two scenarios: /bin/sh -c "echo hi" without entrypoint, and the
\* entrypoint /init with the command --flag
C13_ShellScenario ==
    (TaskRan /\ Len(calls) >= 1 /\ inp.config = ShellConfig) =>
        (calls[1].params.Path = "/bin/sh" /\ calls[1].params.Args = <<"-c", "echo hi">>)

C13_Witness ==
    /\ TaskRan
    /\ Len(calls) >= 1
    /\ inp.config = InitConfig
    /\ calls[1].params.Path = "/init"
    /\ calls[1].params.Args = <<"--flag">>

----------------------------------------------------------------------------
(* Properties of the environment merge *)

EnvRan == pc = "done" /\ op = "setEnvFromImageConfig"

\* the key of an environment entry, as strings.SplitN(e, "=", 2)[0] gives it
EnvKey(e) == SplitN2(e)[1]

\* the positions of env whose entry has key k
EntriesWithKey(env, k) == {i \in DOMAIN env : EnvKey(env[i]) = k}

\* the first entry of env with key k
FirstWithKey(env, k) ==
    env[CHOOSE i \in EntriesWithKey(env, k) : \A j \in EntriesWithKey(env, k) : i <= j]

NoDuplicateKeys(env) ==
    \A i, j \in DOMAIN env : EnvKey(env[i]) = EnvKey(env[j]) => i = j

\* C14: the environment resolved by setEnvFromImageConfig has exactly one
\* entry with key PATH: the user's if the user environment has one, else the
\* image's if the image environment has one, else the default path list.
C14_ExactlyOnePath ==
    EnvRan =>
        LET paths == EntriesWithKey(ret.env, <<"PATH">>)
            expected ==
                IF EntriesWithKey(inp.env, <<"PATH">>) # {}
                THEN FirstWithKey(inp.env, <<"PATH">>)
                ELSE IF EntriesWithKey(inp.imgEnv, <<"PATH">>) # {}
                THEN FirstWithKey(inp.imgEnv, <<"PATH">>)
                ELSE <<"PATH", "=", defaultEnvPath>>
        IN /\ Cardinality(paths) = 1
           /\ \A i \in paths : ret.env[i] = expected

\* C15: for a user and an image environment without internal duplicates, no
\* key occurs more than once in the merged environment (a TERM=xterm
\* injected for a terminal included) and the user's entries keep their value.
C15_NoKeyTwice ==
    (EnvRan /\ NoDuplicateKeys(inp.env) /\ NoDuplicateKeys(inp.imgEnv)) =>
        /\ NoDuplicateKeys(ret.env)
        /\ \A i \in DOMAIN inp.env :
             \A j \in EntriesWithKey(ret.env, EnvKey(inp.env[i])) : ret.env[j] = inp.env[i]

----------------------------------------------------------------------------
(* Properties of validateCreateConfig *)

ValidateRan == pc = "done" /\ op = "validateCreateConfig"

\* C16: for every memory input in bytes (zero, negative, below one MiB,
\* unaligned, large), the memory validateCreateConfig leaves, in MiB, is a
\* positive multiple of MemoryAlignMB (128) and at least MemoryMinMB (512).
C16_MemoryAlignedAndFloored ==
    (ValidateRan /\ ret.err = NoError) =>
        /\ ret.HostConfig.Memory > 0
        /\ ret.HostConfig.Memory % MemoryAlignMB = 0
        /\ ret.HostConfig.Memory >= MemoryMinMB

\* 600 MiB and one byte, which is above the floor and unaligned, becomes 640
C16_Witness ==
    /\ ValidateRan
    /\ ret.err = NoError
    /\ inp.config.HostConfig.Memory = 600 * MiB + 1
    /\ ret.HostConfig.Memory = 640

\* a negative memory, which is raised to the floor
C16_NegativeWitness ==
    /\ ValidateRan
    /\ ret.err = NoError
    /\ inp.config.HostConfig.Memory < -MiB
    /\ ret.HostConfig.Memory = MemoryMinMB

\* the CPU set of the input is consulted and its first element is no integer
CpusetUnparsable(hc) ==
    hc.CPUCount <= 0 /\ hc.CpusetCpus # <<>> /\ ~Atoi(FirstOfSplit(hc.CpusetCpus)).ok

\* C17 as stated: for every CPU input with a CPU count <= 0, with or without
\* a CPU set, or with an unparsable CPU set, the normalized CPU count equals
\* MinCPUs (1).
C17_NonPositiveOrUnparsableIsMin ==
    (ValidateRan /\ inp.config.hasConfig) =>
        LET hc == inp.config.HostConfig
        IN (\/ hc.CPUCount <= 0
            \/ hc.CpusetCpus # <<>> /\ ~Atoi(FirstOfSplit(hc.CpusetCpus)).ok) =>
               ret.HostConfig.CPUCount = MinCPUs

\* C17 (amended): the CPU count is CPUCount when positive, else the first
\* element of the CPU set when one is given, else the default (2); a value
\* below MinCPUs is raised to MinCPUs, so that a count left without error is
\* never below the minimum; an unparsable CPU set that is consulted gives an
\* error and leaves the CPU count as it was.
C17_CpuCountNormalization ==
    (ValidateRan /\ inp.config.hasConfig) =>
        LET hc == inp.config.HostConfig
            first == Atoi(FirstOfSplit(hc.CpusetCpus))
        IN /\ ret.err = NoError => ret.HostConfig.CPUCount >= MinCPUs
           /\ hc.CPUCount > 0 =>
                  (ret.err = NoError /\ ret.HostConfig.CPUCount = hc.CPUCount)
           /\ (hc.CPUCount <= 0 /\ hc.CpusetCpus = <<>>) =>
                  (ret.err = NoError /\ ret.HostConfig.CPUCount = VicDefaultCPUs)
           /\ (hc.CPUCount <= 0 /\ hc.CpusetCpus # <<>> /\ first.ok /\ first.val <= 0) =>
                  (ret.err = NoError /\ ret.HostConfig.CPUCount = MinCPUs)
           /\ (hc.CPUCount <= 0 /\ hc.CpusetCpus # <<>> /\ first.ok /\ first.val > 0) =>
                  (ret.err = NoError /\ ret.HostConfig.CPUCount = first.val)
           /\ CpusetUnparsable(hc) =>
                  (ret.err # NoError /\ ret.HostConfig.CPUCount = hc.CPUCount)

\* no CPU count and the CPU set "0": the count 0 is raised to the minimum
C17_Witness ==
    /\ ValidateRan
    /\ inp.config.hasConfig
    /\ inp.config.HostConfig.CPUCount = 0
    /\ inp.config.HostConfig.CpusetCpus = <<"0">>
    /\ ret.err = NoError
    /\ ret.HostConfig.CPUCount = MinCPUs

\* no CPU count and an unparsable CPU set: an error, the count stays 0
C17_UnparsableWitness ==
    /\ ValidateRan
    /\ CpusetUnparsable(inp.config.HostConfig)
    /\ ret.err # NoError
    /\ ret.HostConfig.CPUCount = 0

----------------------------------------------------------------------------
(* Properties of the image store *)

GetRan == pc = "done" /\ op = "Get"

\* the image was in the cache at the first lookup, or a pull succeeded and
\* the second lookup found it
ImageObtained ==
    \/ calls[1].resp.ok
    \/ Len(calls) = 3 /\ calls[3].resp.ok

\* C18: Get returns either an image configuration or an error: whenever the
\* image is absent from the cache and is not obtained by a successful pull
\* followed by a cache hit, Get returns an error, never a nil error together
\* with a missing configuration.
C18_ConfigOrError ==
    GetRan =>
        /\ ~ImageObtained => ret.err # NoError
        /\ ~(ret.config.isNil /\ ret.err = NoError)

----------------------------------------------------------------------------
(* Properties of setCreateConfigOptions *)

OptionsRan == pc = "done" /\ op = "setCreateConfigOptions"

\* C19: after setCreateConfigOptions, command, entrypoint, working directory
\* and user each equal the user's value when it is not empty and the image's
\* value otherwise, and the volumes are the union of the user's and the
\* image's volumes.
C19_UserValuesKept ==
    OptionsRan =>
        LET user == inp.config
            image == inp.imageConfig
            merged == ret.config
        IN /\ merged.Cmd = (IF user.Cmd # <<>> THEN user.Cmd ELSE image.Cmd)
           /\ merged.Entrypoint =
                  (IF user.Entrypoint # <<>> THEN user.Entrypoint ELSE image.Entrypoint)
           /\ merged.WorkingDir =
                  (IF user.WorkingDir # "" THEN user.WorkingDir ELSE image.WorkingDir)
           /\ merged.User = (IF user.User # "" THEN user.User ELSE image.User)
           /\ merged.Volumes.keys = user.Volumes.keys \cup image.Volumes.keys

\* the user set the entrypoint and a volume, the image has others and a
\* working directory the user left empty
C19_Witness ==
    /\ OptionsRan
    /\ inp.config.Entrypoint = <<"/run">>
    /\ inp.imageConfig.Entrypoint = <<"/init">>
    /\ inp.config.WorkingDir = ""
    /\ inp.imageConfig.WorkingDir = "/www"
    /\ inp.config.Volumes.keys = {"/v"}
    /\ inp.imageConfig.Volumes.keys = {"/data"}
    /\ ret.config.Entrypoint = <<"/run">>
    /\ ret.config.WorkingDir = "/www"
    /\ ret.config.Volumes.keys = {"/v", "/data"}

----------------------------------------------------------------------------
(* No retry and no compensation *)

\* the operations of the isolation proxy
ProxyOps ==
    {"CreateHandle", "Handle", "AddImageToHandle", "CreateHandleTask", "AddHandleToScope",
     "AddLoggingToHandle", "AddInteractionToHandle", "CommitHandle", "SetState"}

ProxyRan == pc = "done" /\ op \in ProxyOps

\* C20: within one invocation an operation of the proxy issues each of its
\* remote calls at most once, issues no remote call after one that failed,
\* and no operation other than AddHandleToScope (CommitHandle in
\* particular) issues a Scopes.RemoveContainer.
C20_NoRetryNoCompensation ==
    ProxyRan =>
        /\ \A i, j \in DOMAIN calls : calls[i].api = calls[j].api => i = j
        /\ \A i \in DOMAIN calls : ~calls[i].resp.ok => i = Len(calls)
        /\ op # "AddHandleToScope" => CallsTo("Scopes.RemoveContainer") = {}

\* a commit the port layer answers with a conflict: one call, no other
C20_Witness ==
    /\ CommitRan
    /\ Len(calls) = 1
    /\ ~calls[1].resp.ok
    /\ calls[1].resp.err.variant = "Conflict"
    /\ ret.err.kind = "ConflictError"

----------------------------------------------------------------------------
(* Handles of failed steps *)

\* the operations that return a handle and an error
HandleReturningOps ==
    {"AddImageToHandle", "CreateHandleTask", "AddHandleToScope", "AddLoggingToHandle",
     "AddInteractionToHandle", "SetState", "Handle"}

\* C21: whenever a handle-returning operation returns an error, the handle
\* it returns is empty: neither the input handle nor a handle issued by the
\* port layer.
C21_FailedStepReturnsNoHandle ==
    (pc = "done" /\ op \in HandleReturningOps /\ ret.err # NoError) => ret.handle = ""

\* C22: with command and entrypoint both empty CreateHandleTask fails (the
\* conversion of the configuration panics) before any remote call: neither
\* Tasks.Join nor Tasks.Bind is issued and no handle is returned.
C22_EmptyCommandFailsBeforeJoin ==
    (TaskRan /\ inp.config.Cmd = <<>> /\ inp.config.Entrypoint = <<>>) =>
        /\ ret.panicked \/ ret.err # NoError
        /\ calls = <<>>
        /\ ret.handle = ""

\* a CreateHandleTask without command and entrypoint, which panics
C22_Witness ==
    /\ TaskRan
    /\ inp.config.Cmd = <<>>
    /\ inp.config.Entrypoint = <<>>
    /\ ret.panicked
    /\ calls = <<>>

----------------------------------------------------------------------------
(* TERM in the resolved environment *)

----------------------------------------------------------------------------
(* The memory arithmetic of validateCreateConfig *)

\* C24: the memory left by validateCreateConfig is computed from the bytes
\* divided by MiB, the quotient truncated toward zero: a quotient of 0
\* becomes MemoryDefaultMB (2048), another quotient below MemoryMinMB (512)
\* becomes 512, and the value is then the least multiple of MemoryAlignMB
\* (128) that is not below it. 0 bytes gives exactly 2048.
C24_MemoryComputation ==
    (ValidateRan /\ ret.err = NoError) =>
        LET bytes == IF inp.config.hasHostConfig THEN inp.config.HostConfig.Memory ELSE 0
            quotient == IF bytes >= 0 THEN bytes \div MiB ELSE -((-bytes) \div MiB)
            floored == IF quotient = 0 THEN MemoryDefaultMB
                       ELSE IF quotient < MemoryMinMB THEN MemoryMinMB
                       ELSE quotient
            result == ret.HostConfig.Memory
        IN /\ result % MemoryAlignMB = 0
           /\ result >= floored
           /\ result - floored < MemoryAlignMB
           /\ bytes = 0 => result = MemoryDefaultMB

\* a HostConfig with 0 bytes of memory, which gets the default
C24_Witness ==
    /\ ValidateRan
    /\ ret.err = NoError
    /\ inp.config.hasHostConfig
    /\ inp.config.HostConfig.Memory = 0
    /\ ret.HostConfig.Memory = MemoryDefaultMB

----------------------------------------------------------------------------
(* Pulls of the image store *)

\* C25: Get pulls only when the first cache lookup fails and actuate is
\* true, and then once; with actuate false, or when the first cache lookup
\* succeeds, it issues no pull and reads the cache exactly once.
C25_PullOnlyOnMissWithActuate ==
    GetRan =>
        LET pulls == CallsTo("http.Post")
            lookups == CallsTo("cache.Get")
        IN /\ calls[1].api = "cache.Get"
           /\ Cardinality(pulls) <= 1
           /\ pulls # {} <=> (~calls[1].resp.ok /\ inp.actuate)
           /\ (~inp.actuate \/ calls[1].resp.ok) => (pulls = {} /\ Cardinality(lookups) = 1)

\* a Get with actuate for an image that is not cached: one pull
C25_Witness ==
    /\ GetRan
    /\ inp.actuate
    /\ ~calls[1].resp.ok
    /\ Cardinality(CallsTo("http.Post")) = 1
    /\ calls[2].api = "http.Post"

----------------------------------------------------------------------------
(* The flags of the task join request *)

\* C26: the Tasks.Join request of CreateHandleTask has attach set to true
\* for every value of the configuration's attach, stdin-once, open-stdin and
\* tty flags, and open-stdin and tty are those of the configuration.
C26_AttachAlwaysTrue ==
    (TaskRan /\ Len(calls) >= 1) =>
        /\ calls[1].api = "Tasks.Join"
        /\ calls[1].params.Attach = TRUE
        /\ calls[1].params.OpenStdin = inp.config.OpenStdin
        /\ calls[1].params.Tty = inp.config.Tty

\* a configuration that asks for a terminal without attach
C26_Witness ==
    /\ TaskRan
    /\ Len(calls) >= 1
    /\ ~inp.config.Attach
    /\ ~inp.config.OpenStdin
    /\ inp.config.Tty
    /\ calls[1].params.Attach
    /\ calls[1].params.Tty
    /\ ~calls[1].params.OpenStdin

----------------------------------------------------------------------------
(* The successful scope join *)

\* C27: when Scopes.AddContainer succeeds, AddHandleToScope issues no
\* Scopes.RemoveContainer, returns no error and returns the handle of the
\* join response, not the input handle.
C27_SuccessfulJoinKeepsResponseHandle ==
    (ScopeRan /\ Len(calls) >= 1 /\ calls[1].resp.ok) =>
        /\ calls[1].api = "Scopes.AddContainer"
        /\ CallsTo("Scopes.RemoveContainer") = {}
        /\ Len(calls) = 1
        /\ ret.err = NoError
        /\ ret.handle = calls[1].resp.payload.val

\* a successful join whose response carries another handle than the input
C27_Witness ==
    /\ ScopeRan
    /\ Len(calls) = 1
    /\ calls[1].resp.ok
    /\ calls[1].resp.payload.val # inp.handle
    /\ ret.handle = calls[1].resp.payload.val
    /\ ret.err = NoError

====
